---- MODULE Spec2Model ----
(***************************************************************************)
(* Model of the Graph class of src/graph-layout.js (lines 501-904): the    *)
(* force-directed layout engine, its canvas view transform and the         *)
(* pointer-interaction handlers.                                           *)
(*                                                                         *)
(* Number representation.  A JavaScript number is a record: Fin(v) for a   *)
(* finite value, NaN, or Inf(+1/-1).  Finite values are fixed-point        *)
(* integers; every quotient is rounded to the nearest unit, the way a      *)
(* floating-point quotient is rounded to the nearest representable value:  *)
(*   - simulation coordinates, device offsets (ctx e, f): 1/100 pixel      *)
(*   - forces and the accumulators nextX/nextY/lastX/lastY: 1/1000         *)
(*   - scale and the canvas matrix entry a: 1/1000                         *)
(* Pointer coordinates (e.x, e.y) are whole pixels relative to the canvas  *)
(* (canvas.offsetLeft = canvas.offsetTop = 0).                             *)
(***************************************************************************)
EXTENDS Integers, Sequences, FiniteSets, TLC

\* ------------------------------------------------------------------------
\* Bounds of the model
\* ------------------------------------------------------------------------
MaxNodes == 2
MaxEdges == 2
MaxFrames == 2
MaxWheel == 1
MaxMoves == 1

\* ------------------------------------------------------------------------
\* Program and environment constants
\* ------------------------------------------------------------------------
Width == 40
Height == 40
HoverBox == 10
MinScale == 100
MaxScale == 20000
WheelDivisor == 1250
LinkDistance == 150
RepelCap == 50
Cent == 100
Milli == 10 * Cent

Null == -1

\* ------------------------------------------------------------------------
\* JavaScript numbers
\* ------------------------------------------------------------------------
Fin(v) == [k |-> "fin", v |-> v]
NaN == [k |-> "nan", v |-> 0]
Inf(s) == [k |-> "inf", v |-> s]
IsFin(x) == x.k = "fin"
IsNaN(x) == x.k = "nan"

Abs(n) == IF n < 0 THEN -n ELSE n
Sign(n) == IF n > 0 THEN 1 ELSE IF n < 0 THEN -1 ELSE 0
Min(a, b) == IF a <= b THEN a ELSE b
Max(a, b) == IF a >= b THEN a ELSE b

\* Math.round on the quotient n / d, d > 0: nearest integer, halves go up.
RoundDiv(n, d) == (n + d \div 2) \div d

\* Nearest-unit quotient for a divisor of either sign (d # 0).
Quot(n, d) == IF d > 0 THEN RoundDiv(n, d) ELSE RoundDiv(-n, -d)

\* Integer square root (floor), by bisection.
RECURSIVE SqrtSearch(_, _, _)
SqrtSearch(n, lo, hi) ==
    IF lo >= hi THEN lo
    ELSE LET mid == (lo + hi + 1) \div 2
         IN IF mid * mid <= n THEN SqrtSearch(n, mid, hi)
                              ELSE SqrtSearch(n, lo, mid - 1)
Isqrt(n) == SqrtSearch(n, 0, Min(n, 46340))

\* ------------------------------------------------------------------------
\* Strings of the persisted 'scale' entry: sequences of one-character
\* strings; Absent is a missing entry (localStorage.getItem returns null).
\* ------------------------------------------------------------------------
Digits == <<"0", "1", "2", "3", "4", "5", "6", "7", "8", "9">>
IsDigit(c) == \E i \in 1..10 : Digits[i] = c
DigitVal(c) == (CHOOSE i \in 1..10 : Digits[i] = c) - 1

\* Length of the longest run of digits of s starting at position i.
RECURSIVE DigitRun(_, _)
DigitRun(s, i) ==
    IF i <= Len(s) /\ IsDigit(s[i]) THEN 1 + DigitRun(s, i + 1) ELSE 0

\* Value of the digits s[i..i+n-1] as an integer.
RECURSIVE DigitsInt(_, _, _)
DigitsInt(s, i, n) ==
    IF n = 0 THEN 0
    ELSE DigitsInt(s, i, n - 1) * 10 + DigitVal(s[i + n - 1])

\* Value of the fraction digits s[i..i+n-1] in thousandths (digits past
\* the third are dropped).
FracMilli(s, i, n) ==
    LET d(j) == IF j < n THEN DigitVal(s[i + j]) ELSE 0
    IN d(0) * 100 + d(1) * 10 + d(2)

\* The longest prefix of s from position i that is a decimal literal
\* (digits, optionally '.', digits; at least one digit): its length and
\* its value in thousandths; length 0 when there is none.
DecimalPrefix(s, i) ==
    LET ni == DigitRun(s, i)
        dot == i + ni <= Len(s) /\ s[i + ni] = "."
        nf == IF dot THEN DigitRun(s, i + ni + 1) ELSE 0
    IN IF ni + nf = 0 THEN [len |-> 0, val |-> 0]
       ELSE [len |-> ni + (IF dot THEN 1 + nf ELSE 0),
             val |-> DigitsInt(s, i, ni) * Milli
                     + (IF dot THEN FracMilli(s, i + ni + 1, nf) ELSE 0)]

\* An entry of the key-value store as localStorage.getItem returns it.
Absent == [has |-> FALSE, str |-> <<>>]
Stored(s) == [has |-> TRUE, str |-> s]

\* The string a value is converted to when a string is required:
\* String(null) is "null".
ToStr(item) == IF item.has THEN item.str ELSE <<"n", "u", "l", "l">>

\* parseFloat: an optional sign and then the longest decimal-literal
\* prefix; NaN when there is none.  (Leading white space, exponents and
\* "Infinity" do not occur in the strings of the model.)
ParseFloat(item) ==
    LET s == ToStr(item)
        neg == Len(s) >= 1 /\ s[1] = "-"
        p == DecimalPrefix(s, IF neg THEN 2 ELSE 1)
    IN IF p.len = 0 THEN NaN
       ELSE Fin(IF neg THEN -p.val ELSE p.val)

\* Number(v), the coercion the global isNaN applies: null is 0, the empty
\* string is 0, a string that is wholly a signed decimal literal is its
\* value, any other string is NaN.
ToNumber(item) ==
    IF ~item.has THEN Fin(0)
    ELSE LET s == item.str
             neg == Len(s) >= 1 /\ s[1] = "-"
             start == IF neg THEN 2 ELSE 1
             p == DecimalPrefix(s, start)
         IN IF Len(s) = 0 THEN Fin(0)
            ELSE IF p.len > 0 /\ start + p.len - 1 = Len(s)
                 THEN Fin(IF neg THEN -p.val ELSE p.val)
                 ELSE NaN

\* The decimal digits of a natural number.
RECURSIVE NatToStr(_)
NatToStr(n) ==
    IF n < 10 THEN <<Digits[n + 1]>>
    ELSE NatToStr(n \div 10) \o <<Digits[(n % 10) + 1]>>

\* The fraction digits of m thousandths, trailing zeros removed.
FracToStr(m) ==
    IF m % 100 = 0 THEN <<Digits[(m \div 100) + 1]>>
    ELSE IF m % 10 = 0
         THEN <<Digits[(m \div 100) + 1], Digits[((m \div 10) % 10) + 1]>>
         ELSE <<Digits[(m \div 100) + 1], Digits[((m \div 10) % 10) + 1],
                Digits[(m % 10) + 1]>>

\* String(x) of a number, as localStorage.setItem stores it.
NumToStr(x) ==
    IF IsNaN(x) THEN <<"N", "a", "N">>
    ELSE IF ~IsFin(x)
         THEN (IF x.v < 0 THEN <<"-">> ELSE <<>>)
              \o <<"I", "n", "f", "i", "n", "i", "t", "y">>
         ELSE LET m == Abs(x.v)
              IN (IF x.v < 0 THEN <<"-">> ELSE <<>>)
                 \o NatToStr(m \div Milli)
                 \o (IF m % Milli = 0 THEN <<>>
                     ELSE <<".">> \o FracToStr(m % Milli))

\* ------------------------------------------------------------------------
\* View transform.  ctx is the canvas matrix [a 0 0 a e f]: a device
\* coordinate is a * simulation coordinate + e.  The canvas ignores a
\* setTransform, translate or scale call of which an argument is NaN or
\* infinite.
\* ------------------------------------------------------------------------
Identity == [a |-> Milli, e |-> 0, f |-> 0]

\* #scaledPart(dim) = dim * (1 - scale), dim in 1/100 pixel.
ScaledPart(dim, sc) ==
    IF IsFin(sc) THEN Fin(Quot(dim * (Milli - sc.v), Milli))
    ELSE IF IsNaN(sc) THEN NaN
    ELSE Inf(-sc.v)

\* constructor: the scale restored from the store, or 1.
InitialScale(save, item) ==
    IF save
    THEN (IF IsNaN(ToNumber(item)) THEN Fin(Milli) ELSE ParseFloat(item))
    ELSE Fin(Milli)

\* #setInitialTransform
SetInitialTransform(sc) ==
    LET e == ScaledPart((Width * Cent) \div 2, sc)
        f == ScaledPart((Height * Cent) \div 2, sc)
    IN IF IsFin(sc) /\ IsFin(e) /\ IsFin(f)
       THEN [a |-> sc.v, e |-> e.v, f |-> f.v]
       ELSE Identity

\* n / this.scale for a finite n in 1/100 pixel
DivScale(n, sc) ==
    IF IsNaN(sc) THEN NaN
    ELSE IF ~IsFin(sc) THEN Fin(0)
    ELSE IF sc.v = 0
         THEN (IF n = 0 THEN NaN ELSE Inf(Sign(n)))
         ELSE Fin(Quot(n * Milli, sc.v))

\* #scaleCoord(coord, center) = (coord - center) / this.scale
ScaleCoord(coord, center, sc) == DivScale(coord - center, sc)

\* #canvasCoords(x, y): pointer pixel to simulation coordinates.
CanvasCoords(px, py, t, sc) ==
    <<ScaleCoord(px * Cent, t.e, sc), ScaleCoord(py * Cent, t.f, sc)>>

\* ctx.translate(x, y)
CtxTranslate(t, x, y) ==
    IF IsFin(x) /\ IsFin(y)
    THEN [t EXCEPT !.e = @ + Quot(t.a * x.v, Milli),
                   !.f = @ + Quot(t.a * y.v, Milli)]
    ELSE t

\* -x of a number
Neg(x) == IF IsFin(x) THEN Fin(-x.v) ELSE IF IsNaN(x) THEN NaN ELSE Inf(-x.v)

\* ctx.scale(r, r) with r = newScale / oldScale.
CtxScale(t, newSc, oldSc) ==
    IF IsFin(newSc) /\ IsFin(oldSc) /\ oldSc.v # 0
    THEN [t EXCEPT !.a = Quot(@ * newSc.v, oldSc.v)]
    ELSE t

\* wheel handler: Math.min(Math.max(Math.round((scale + factor) * 10) / 10,
\* 0.1), 20) with factor = deltaY / -1250.
NewScale(sc, deltaY) ==
    IF IsNaN(sc) THEN NaN
    ELSE IF ~IsFin(sc)
         THEN (IF sc.v > 0 THEN Fin(MaxScale) ELSE Fin(MinScale))
         ELSE LET tenths == RoundDiv(WheelDivisor * sc.v - Milli * deltaY,
                                     (WheelDivisor * Milli) \div 10)
              IN Fin(Min(Max(tenths * (Milli \div 10), MinScale), MaxScale))

\* ------------------------------------------------------------------------
\* Arithmetic on JavaScript numbers
\* ------------------------------------------------------------------------
Add(x, y) ==
    IF IsNaN(x) \/ IsNaN(y) THEN NaN
    ELSE IF IsFin(x) /\ IsFin(y) THEN Fin(x.v + y.v)
    ELSE IF IsFin(x) THEN y
    ELSE IF IsFin(y) THEN x
    ELSE IF x.v = y.v THEN x ELSE NaN

Sub(x, y) == Add(x, Neg(y))

\* Math.abs(a - b) < limit, with a, b in 1/100 pixel and limit in pixels;
\* a comparison with NaN is false.
AbsDiffLess(a, b, limit) ==
    LET d == Sub(a, b)
    IN IsFin(d) /\ Abs(d.v) < limit * Cent

\* Math.sqrt(dx ** 2 + dy ** 2) for finite dx, dy in 1/100 pixel; large
\* operands are computed at a coarser resolution.
Hypot(dx, dy) ==
    LET m == Max(Abs(dx), Abs(dy))
        k == IF m <= 30000 THEN 1 ELSE IF m <= 300000 THEN 10 ELSE 1000
        a == dx \div k
        b == dy \div k
    IN k * Isqrt(a * a + b * b)

\* distance ** 2 in square pixels, for a distance in 1/100 pixel
SquarePx(d) ==
    IF d <= 46000 THEN RoundDiv(d * d, Cent * Cent)
    ELSE (d \div Cent) * (d \div Cent)

\* ------------------------------------------------------------------------
\* Force model
\* ------------------------------------------------------------------------
\* this.damping = 0.01, in percent
DampingPct == 1
\* this.repelForce * 2000
RepelK == 20000
\* this.centerForce * 0.00003 = 0.0000156, in units of 1e-7
CenterK == 156

\* dist(node1, node2), in 1/100 pixel
Dist(p1, p2) ==
    LET dx == Sub(p1.x, p2.x)
        dy == Sub(p1.y, p2.y)
    IN IF IsFin(dx) /\ IsFin(dy) THEN Fin(Hypot(dx.v, dy.v)) ELSE NaN

\* #calcDamping(force)
CalcDamping(force) ==
    IF IsFin(force)
    THEN Fin(Sign(force.v) * RoundDiv(Abs(force.v) * (100 - DampingPct), 100))
    ELSE force

\* One component of #forceDirection: Math.sqrt(force ** 2 / (1 + (other /
\* along) ** 2)) * Math.sign(along), which is |force| * |along| / hypot
\* carrying the sign of 'along'.  along = 0 with other # 0 makes the
\* quotient infinite and the component 0; along = other = 0 makes the
\* quotient 0 / 0 and the component NaN.
Component(force, along, other) ==
    IF along = 0 /\ other = 0 THEN NaN
    ELSE IF along = 0 THEN Fin(0)
    ELSE LET h == Hypot(along, other)
             ratio == RoundDiv(Abs(along) * Milli, Max(h, 1))
         IN Fin(Sign(along) * RoundDiv(Abs(force) * Min(ratio, Milli), Milli))

\* #forceDirection(node1, node2, force): the x and y components
ForceDirection(p1, p2, force) ==
    LET f == CalcDamping(force)
        rise == Sub(p2.y, p1.y)
        run == Sub(p2.x, p1.x)
    IN IF IsFin(f) /\ IsFin(rise) /\ IsFin(run)
       THEN <<Component(f.v, run.v, rise.v), Component(f.v, rise.v, run.v)>>
       ELSE <<NaN, NaN>>

\* Math.min(this.repelForce * 2000 / (distance ** 2), 50), in 1/1000
RepelForce(d) ==
    IF ~IsFin(d) THEN NaN
    ELSE IF d.v <= 2000 THEN Fin(RepelCap * Milli)
    ELSE Fin(Min(RoundDiv(((RepelK * Cent * Milli) \div d.v) * Cent, d.v), RepelCap * Milli))

\* this.centerForce * 0.00003 * (distance ** 2), in 1/1000
CenterForce(d) ==
    IF ~IsFin(d) THEN NaN
    ELSE Fin(RoundDiv(SquarePx(d.v) * CenterK, 10000))

\* Math.min(this.linkDistance - edgeLength, 0) * 0.1 * this.linkForce ** 3,
\* in 1/1000 (a length in 1/100 pixel times 0.1 is the force in 1/1000)
EdgeForce(len) ==
    IF ~IsFin(len) THEN NaN
    ELSE Fin(Min(LinkDistance * Cent - len.v, 0))

\* ------------------------------------------------------------------------
\* Layout engine: one frame
\* ------------------------------------------------------------------------
\* this.centerNode
CenterNode == [x |-> Fin((Width * Cent) \div 2), y |-> Fin((Height * Cent) \div 2)]

\* #calcCenterForce(node), node = ns[i]
CalcCenterForce(ns, i) ==
    LET distance == Dist(CenterNode, ns[i])
        dir == ForceDirection(CenterNode, ns[i], CenterForce(distance))
    IN [ns EXCEPT ![i].nextX = Sub(@, dir[1]), ![i].nextY = Sub(@, dir[2])]

\* #calcInternodeForce(node1, node2), node1 = ns[i], node2 = ns[j]
CalcInternodeForce(ns, i, j) ==
    LET distance == Dist(ns[i], ns[j])
        dir == ForceDirection(ns[i], ns[j], RepelForce(distance))
    IN [ns EXCEPT ![i].nextX = Sub(@, dir[1]), ![i].nextY = Sub(@, dir[2]),
                  ![j].nextX = Add(@, dir[1]), ![j].nextY = Add(@, dir[2])]

\* #calcEdgeForce(edge): the nodes are indexed by the ids of the edge
CalcEdgeForce(ns, edge) ==
    LET i == edge[1] + 1
        j == edge[2] + 1
        edgeLength == Dist(ns[i], ns[j])
        dir == ForceDirection(ns[i], ns[j], EdgeForce(edgeLength))
        n1 == [ns EXCEPT ![i].nextX = Add(@, dir[1]), ![i].nextY = Add(@, dir[2])]
    IN [n1 EXCEPT ![j].nextX = Sub(@, dir[1]), ![j].nextY = Sub(@, dir[2])]

\* the inner loop of #updatePositions over otherNode = ns[j..]
RECURSIVE InternodeLoop(_, _, _)
InternodeLoop(ns, i, j) ==
    IF j > Len(ns) THEN ns
    ELSE InternodeLoop(IF j = i THEN ns ELSE CalcInternodeForce(ns, i, j),
                       i, j + 1)

\* the outer loop of #updatePositions over targetNode = ns[i..]
RECURSIVE ForceLoop(_, _)
ForceLoop(ns, i) ==
    IF i > Len(ns) THEN ns
    ELSE ForceLoop(InternodeLoop(CalcCenterForce(ns, i), i, 1), i + 1)

\* the loop of #updatePositions over the edges es[k..]
RECURSIVE EdgeLoop(_, _, _)
EdgeLoop(ns, es, k) ==
    IF k > Len(es) THEN ns
    ELSE EdgeLoop(CalcEdgeForce(ns, es[k]), es, k + 1)

\* (a + b) / 2 for accumulators
Half(x) == IF IsFin(x) THEN Fin(RoundDiv(x.v, 2)) ELSE x

\* Math.round(x * 100) / 100: an accumulator value in 1/1000 rounded to a
\* position delta in 1/100
Round2(x) == IF IsFin(x) THEN Fin(RoundDiv(x.v, Milli \div Cent)) ELSE x

\* mutant of #canApplyForces: the dragged node is not exempted
CanApplyForces_Always(node, dragged) == TRUE

\* #canApplyForces(node)
CanApplyForces(node, dragged) == node.id # dragged

\* mutant of the 'apply forces' loop body: the accumulators are reset only
\* for a node whose forces were applied
ApplyForces_ResetApplied(node, dragged) ==
    LET x == Half(Add(node.nextX, node.lastX))
        y == Half(Add(node.nextY, node.lastY))
        can == CanApplyForces(node, dragged)
    IN [node EXCEPT !.x = IF can THEN Add(@, Round2(x)) ELSE @,
                    !.y = IF can THEN Add(@, Round2(y)) ELSE @,
                    !.lastX = x, !.lastY = y,
                    !.nextX = IF can THEN Fin(0) ELSE @,
                    !.nextY = IF can THEN Fin(0) ELSE @]

\* the 'apply forces' loop body of #updatePositions for one node
ApplyForces(node, dragged) ==
    LET x == Half(Add(node.nextX, node.lastX))
        y == Half(Add(node.nextY, node.lastY))
        can == CanApplyForces(node, dragged)
    IN [node EXCEPT !.x = IF can THEN Add(@, Round2(x)) ELSE @,
                    !.y = IF can THEN Add(@, Round2(y)) ELSE @,
                    !.lastX = x, !.lastY = y,
                    !.nextX = Fin(0), !.nextY = Fin(0)]

\* #updatePositions
UpdatePositions(ns, es, dragged) ==
    LET forces == EdgeLoop(ForceLoop(ns, 1), es, 1)
    IN [i \in 1..Len(ns) |-> ApplyForces(forces[i], dragged)]

\* ------------------------------------------------------------------------
\* Inputs of the model
\* ------------------------------------------------------------------------
\* values of the persisted 'scale' entry when the graph is constructed
PersistedValues ==
    {Absent, Stored(<<>>), Stored(<<"x">>), Stored(<<"1", ".", "5">>),
     Stored(<<"5", "0">>), Stored(<<"0">>), Stored(<<"N", "a", "N">>)}

\* pointer positions (e.x, e.y), in pixels
Pointers == {<<20, 20>>, <<13, 14>>, <<36, 4>>}

\* wheel deltaY values
DeltaYs == {0, -125, 2500}

\* initial node positions Graph.rand returns, in 1/100 pixel
StartPositions == {<<2000, 2000>>, <<1200, 1200>>}

\* node sizes passed to newNode
Sizes == {10}

\* elements of the arrays passed to newEdge
EdgeArgs ==
    {<<Fin(0), Fin(1000)>>, <<Fin(1000), Fin(0)>>, <<Fin(0), Fin(0)>>,
     <<Fin(-1000), Fin(0)>>, <<Fin(500), Fin(0)>>, <<Fin(0), Fin(2000)>>,
     <<Fin(0)>>}

\* arrays passed to newEdge that join node 0 to node 1
LinkArgs == {<<Fin(0), Fin(1000)>>}

\* ------------------------------------------------------------------------
\* State
\* ------------------------------------------------------------------------
VARIABLES
    scale,        \* this.scale
    saveZoom,     \* this.saveZoom
    storage,      \* localStorage entry 'scale'
    ctx,          \* this.ctx transform
    nextID,       \* this.nextID
    nodes,        \* this.nodes
    edges,        \* this.edges
    hoveredNode,  \* this.hoveredNode (id of the node, or Null)
    draggedNode,  \* this.draggedNode (id of the node, or Null)
    dragging,     \* this.dragging
    startDrag,    \* <<this.startDragX, this.startDragY>>
    thrown,       \* what the last call of newEdge or render threw
    frames,       \* number of frames advanced
    wheels,       \* number of wheel events that changed the scale
    moves         \* number of pointer-moves that dragged a node or panned

vars == <<scale, saveZoom, storage, ctx, nextID, nodes, edges, hoveredNode,
          draggedNode, dragging, startDrag, thrown, frames,
          wheels, moves>>

view == <<scale, saveZoom, storage, ctx>>
store == <<nextID, nodes, edges>>
interaction == <<hoveredNode, draggedNode, dragging, startDrag>>

\* constructor, with the option saveZoom = save and the store holding item
Construct(save, item) ==
    /\ saveZoom = save
    /\ storage = item
    /\ scale = InitialScale(saveZoom, storage)
    /\ ctx = SetInitialTransform(scale)
    /\ startDrag = <<0, 0>>
    /\ nextID = 0
    /\ nodes = <<>>
    /\ edges = <<>>
    /\ hoveredNode = Null
    /\ draggedNode = Null
    /\ dragging = FALSE
    /\ thrown = "none"
    /\ frames = 0
    /\ wheels = 0
    /\ moves = 0

\* a graph restoring the persisted zoom 1.5
Init == Construct(TRUE, Stored(<<"1", ".", "5">>))

\* a graph constructed against any state of the store
InitView == \E save \in BOOLEAN, item \in PersistedValues : Construct(save, item)

\* a graph that does not persist its zoom
InitStore == Construct(FALSE, Absent)

\* ------------------------------------------------------------------------
\* Mutation API
\* ------------------------------------------------------------------------
\* mutant of newNode: this.nextID is not incremented
NewNode_SameID(size, pos) ==
    /\ Len(nodes) < MaxNodes
    /\ nodes' = Append(nodes, [id |-> nextID, size |-> size,
                               x |-> Fin(pos[1]), y |-> Fin(pos[2]),
                               nextX |-> Fin(0), nextY |-> Fin(0),
                               lastX |-> Fin(0), lastY |-> Fin(0)])
    /\ nextID' = nextID
    /\ UNCHANGED <<view, edges, interaction, thrown, frames, wheels, moves>>

\* newNode({size}) with the position Graph.rand draws
NewNode(size, pos) ==
    /\ Len(nodes) < MaxNodes
    /\ nodes' = Append(nodes, [id |-> nextID, size |-> size,
                               x |-> Fin(pos[1]), y |-> Fin(pos[2]),
                               nextX |-> Fin(0), nextY |-> Fin(0),
                               lastX |-> Fin(0), lastY |-> Fin(0)])
    /\ nextID' = nextID + 1
    /\ UNCHANGED <<view, edges, interaction, thrown, frames, wheels, moves>>

\* Number.isInteger
IsInteger(x) == IsFin(x) /\ x.v % Milli = 0

\* x >= this.nextID
AtLeastNextID(x, next) ==
    IF IsFin(x) THEN x.v >= next * Milli ELSE ~IsNaN(x) /\ x.v > 0

\* the validity test of newEdge
InvalidEdge(edge, next) ==
    \/ Len(edge) # 2
    \/ ~IsInteger(edge[1])
    \/ ~IsInteger(edge[2])
    \/ AtLeastNextID(edge[1], next)
    \/ AtLeastNextID(edge[2], next)

\* newEdge(edge)
NewEdge(edge) ==
    /\ IF InvalidEdge(edge, nextID)
       THEN /\ thrown' = "invalid edge"
            /\ edges' = edges
       ELSE /\ Len(edges) < MaxEdges
            /\ thrown' = "none"
            /\ edges' = Append(edges, <<edge[1].v \div Milli, edge[2].v \div Milli>>)
    /\ UNCHANGED <<view, nextID, nodes, interaction, frames, wheels, moves>>

\* this.nodes[id] is undefined
NoNode(id) == id < 0 \/ id >= Len(nodes)

\* render(): the edge loop reads this.nodes[edge[k]].x, which throws a
\* TypeError for an id that indexes no node; otherwise #updatePositions.
Render ==
    /\ frames < MaxFrames
    /\ IF \E k \in 1..Len(edges) : NoNode(edges[k][1]) \/ NoNode(edges[k][2])
       THEN /\ thrown' = "TypeError"
            /\ UNCHANGED <<nodes, frames>>
       ELSE /\ thrown' = "none"
            /\ nodes' = UpdatePositions(nodes, edges, draggedNode)
            /\ frames' = frames + 1
    /\ UNCHANGED <<view, nextID, edges, interaction, wheels, moves>>

\* ------------------------------------------------------------------------
\* Interaction controller
\* ------------------------------------------------------------------------
\* the hit test of #mouseMove for one node
Hit(node, pos) ==
    /\ AbsDiffLess(node.x, pos[1], HoverBox)
    /\ AbsDiffLess(node.y, pos[2], HoverBox)

\* the hover loop of #mouseMove: the first node that is hit, or Null
HoverTarget(ns, pos) ==
    IF \E i \in 1..Len(ns) : Hit(ns[i], pos)
    THEN LET first == CHOOSE i \in 1..Len(ns) :
                          /\ Hit(ns[i], pos)
                          /\ \A j \in 1..(i - 1) : ~Hit(ns[j], pos)
         IN ns[first].id
    ELSE Null

\* mutant of #mouseMove: the drag branch does not return and falls into
\* the pan branch
MouseMove_NoReturn(px, py) ==
    LET pos == CanvasCoords(px, py, ctx, scale)
    IN /\ IF draggedNode # Null
          THEN /\ moves < MaxMoves
               /\ nodes' = [nodes EXCEPT ![draggedNode + 1].x = pos[1],
                                         ![draggedNode + 1].y = pos[2]]
               /\ ctx' = CtxTranslate(ctx,
                             DivScale((px - startDrag[1]) * Cent, scale),
                             DivScale((py - startDrag[2]) * Cent, scale))
               /\ startDrag' = <<px, py>>
               /\ moves' = moves + 1
               /\ UNCHANGED hoveredNode
          ELSE IF dragging
          THEN /\ moves < MaxMoves
               /\ ctx' = CtxTranslate(ctx,
                             DivScale((px - startDrag[1]) * Cent, scale),
                             DivScale((py - startDrag[2]) * Cent, scale))
               /\ startDrag' = <<px, py>>
               /\ moves' = moves + 1
               /\ UNCHANGED <<nodes, hoveredNode>>
          ELSE /\ hoveredNode' = HoverTarget(nodes, pos)
               /\ UNCHANGED <<nodes, ctx, startDrag, moves>>
       /\ UNCHANGED <<scale, saveZoom, storage, nextID, edges, draggedNode,
                      dragging, thrown, frames, wheels>>

\* #mouseMove(e).  (this.mousePos, which only the cursor dot of render
\* reads, is not part of the state.)
MouseMove(px, py) ==
    LET pos == CanvasCoords(px, py, ctx, scale)
    IN /\ IF draggedNode # Null
          THEN /\ moves < MaxMoves
               /\ nodes' = [nodes EXCEPT ![draggedNode + 1].x = pos[1],
                                         ![draggedNode + 1].y = pos[2]]
               /\ moves' = moves + 1
               /\ UNCHANGED <<ctx, startDrag, hoveredNode>>
          ELSE IF dragging
          THEN /\ moves < MaxMoves
               /\ ctx' = CtxTranslate(ctx,
                             DivScale((px - startDrag[1]) * Cent, scale),
                             DivScale((py - startDrag[2]) * Cent, scale))
               /\ startDrag' = <<px, py>>
               /\ moves' = moves + 1
               /\ UNCHANGED <<nodes, hoveredNode>>
          ELSE /\ hoveredNode' = HoverTarget(nodes, pos)
               /\ UNCHANGED <<nodes, ctx, startDrag, moves>>
       /\ UNCHANGED <<scale, saveZoom, storage, nextID, edges, draggedNode,
                      dragging, thrown, frames, wheels>>

\* mousedown handler
MouseDown(px, py) ==
    /\ draggedNode' = hoveredNode
    /\ dragging' = TRUE
    /\ startDrag' = <<px, py>>
    /\ UNCHANGED <<view, store, hoveredNode, thrown, frames,
                   wheels, moves>>

\* mutant of the mouseup handler: the dragging flag is not cleared
MouseUp_KeepsDragging ==
    /\ draggedNode' = Null
    /\ UNCHANGED <<view, store, hoveredNode, dragging, startDrag, thrown,
                   frames, wheels, moves>>

\* mouseup handler
MouseUp ==
    /\ draggedNode' = Null
    /\ dragging' = FALSE
    /\ UNCHANGED <<view, store, hoveredNode, startDrag, thrown,
                   frames, wheels, moves>>

\* mutant of the mouseleave handler: only hoveredNode is cleared
MouseLeave_HoverOnly ==
    /\ hoveredNode' = Null
    /\ UNCHANGED <<view, store, draggedNode, dragging, startDrag, thrown,
                   frames, wheels, moves>>

\* mouseleave handler
MouseLeave ==
    /\ draggedNode' = Null
    /\ hoveredNode' = Null
    /\ dragging' = FALSE
    /\ UNCHANGED <<view, store, startDrag, thrown, frames,
                   wheels, moves>>

\* newScale === this.scale
StrictEq(x, y) == ~IsNaN(x) /\ ~IsNaN(y) /\ x = y

\* the transform after the wheel handler's translate / scale / translate
ZoomAbout(t, pos, newSc, oldSc) ==
    CtxTranslate(CtxScale(CtxTranslate(t, pos[1], pos[2]), newSc, oldSc),
                 Neg(pos[1]), Neg(pos[2]))

\* wheel handler
Wheel(px, py, deltaY) ==
    LET newScale == NewScale(scale, deltaY)
    IN /\ IF StrictEq(newScale, scale)
          THEN UNCHANGED <<scale, storage, ctx, wheels>>
          ELSE /\ wheels < MaxWheel
               /\ ctx' = ZoomAbout(ctx, CanvasCoords(px, py, ctx, scale),
                                   newScale, scale)
               /\ scale' = newScale
               /\ storage' = IF saveZoom THEN Stored(NumToStr(newScale))
                                         ELSE storage
               /\ wheels' = wheels + 1
       /\ UNCHANGED <<saveZoom, store, interaction, thrown, frames, moves>>

\* ------------------------------------------------------------------------
\* Specifications
\* ------------------------------------------------------------------------
\* layout and interaction: every operation, on a graph whose edges join
\* node 0 to node 1
Next ==
    \/ \E size \in Sizes, pos \in StartPositions : NewNode(size, pos)
    \/ \E edge \in LinkArgs : NewEdge(edge)
    \/ Render
    \/ \E p \in Pointers : MouseMove(p[1], p[2])
    \/ \E p \in Pointers : MouseDown(p[1], p[2])
    \/ MouseUp
    \/ MouseLeave
    \/ \E p \in Pointers, deltaY \in DeltaYs : Wheel(p[1], p[2], deltaY)

Spec == Init /\ [][Next]_vars

\* node and edge store with the layout engine: any argument of newEdge
NextStore ==
    \/ \E size \in Sizes, pos \in StartPositions : NewNode(size, pos)
    \/ \E edge \in EdgeArgs : NewEdge(edge)
    \/ Render

SpecStore == InitStore /\ [][NextStore]_vars

\* view transform: pan and zoom of an empty graph, from any persisted value
NextView ==
    \/ \E p \in Pointers : MouseMove(p[1], p[2])
    \/ \E p \in Pointers : MouseDown(p[1], p[2])
    \/ MouseUp
    \/ MouseLeave
    \/ \E p \in Pointers, deltaY \in DeltaYs : Wheel(p[1], p[2], deltaY)

SpecView == InitView /\ [][NextView]_vars

\* ------------------------------------------------------------------------
\* Properties
\* ------------------------------------------------------------------------
\* 0.1 <= x <= 20 for a scale x
ScaleInRange(x) == IsFin(x) /\ MinScale <= x.v /\ x.v <= MaxScale

\* the device pixel the canvas matrix t maps a simulation coordinate to
DevicePixel(a, e, x) == RoundDiv(Quot(a * x, Milli) + e, Cent)

\* C1: in every reachable state the view scale satisfies 0.1 <= scale <= 20.
C1_ScaleInRange == ScaleInRange(scale)

\* the scale the persisted entry stands for: the number a decimal string
\* denotes, 1 for an absent or non-numeric entry
PersistedScale(item) ==
    IF item.has /\ Len(item.str) > 0 /\ IsFin(ToNumber(item))
    THEN ToNumber(item)
    ELSE Fin(Milli)

\* C2: with zoom persistence enabled, construction sets the scale to 1 when
\* the persisted entry is absent or not a number, and to the number when
\* it is a decimal string (before any wheel event the scale and the entry
\* are those of construction).
C2_RestoredScale ==
    (saveZoom /\ wheels = 0) => scale = PersistedScale(storage)

\* C3: every wheel event leaves the scale within [0.1, 20] and keeps the
\* simulation-space point under the pointer on the same device pixel.
C3_ZoomAboutPointer ==
    [][\A p \in Pointers, deltaY \in DeltaYs :
          Wheel(p[1], p[2], deltaY) =>
             LET pos == CanvasCoords(p[1], p[2], ctx, scale)
             IN /\ ScaleInRange(scale')
                /\ IsFin(pos[1]) /\ IsFin(pos[2])
                /\ DevicePixel(ctx'.a, ctx'.e, pos[1].v) = p[1]
                /\ DevicePixel(ctx'.a, ctx'.f, pos[2].v) = p[2]]_vars

\* an element of an array passed to newEdge references an existing node
ReferencesNode(x, next) ==
    IsFin(x) /\ x.v % Milli = 0 /\ 0 <= x.v /\ x.v < next * Milli

\* the unordered pair of node ids an array passed to newEdge names
PairOf(edge) == {edge[1].v \div Milli, edge[2].v \div Milli}

\* C4: newEdge for an unordered pair that is already stored, in either
\* order, is a no-op: the edge collection keeps its size and no error is
\* raised.
C4_DuplicateEdgeNoOp ==
    [][\A edge \in EdgeArgs :
          (/\ NewEdge(edge)
           /\ Len(edge) = 2
           /\ \A i \in 1..2 : ReferencesNode(edge[i], nextID)
           /\ edge[1] # edge[2]
           /\ \E k \in 1..Len(edges) : {edges[k][1], edges[k][2]} = PairOf(edge))
          => (Len(edges') = Len(edges) /\ thrown' = "none")]_vars

\* C5: newEdge with an id that references no existing node fails with the
\* invalid-edge error and leaves the edges unchanged, so every stored edge
\* has both endpoints referencing existing nodes.
C5_InvalidEdgeRejected ==
    [][\A edge \in EdgeArgs :
          NewEdge(edge) =>
             /\ (\E i \in 1..Len(edge) : ~ReferencesNode(edge[i], nextID))
                   => (thrown' = "invalid edge" /\ edges' = edges)
             /\ \A k \in 1..Len(edges') :
                   /\ edges'[k][1] \in 0..(nextID - 1)
                   /\ edges'[k][2] \in 0..(nextID - 1)]_vars

\* C6: pointer-down with a node hovered starts dragging exactly that node,
\* pointer-down with no node hovered starts panning, and no pointer-move
\* both moves a node and translates the view.
C6_DragOrPan ==
    [][/\ \A p \in Pointers :
             MouseDown(p[1], p[2]) =>
                /\ dragging'
                /\ hoveredNode # Null => draggedNode' = hoveredNode
                /\ hoveredNode = Null => draggedNode' = Null
       /\ \A p \in Pointers :
             MouseMove(p[1], p[2]) => ~(nodes' # nodes /\ ctx' # ctx)]_vars

\* a pointer-move has moved the dragged node
C6_Witness ==
    draggedNode # Null /\ draggedNode = hoveredNode /\ dragging /\ moves > 0

\* C7 as stated: after pointer-up or pointer-leave the controller is idle,
\* with draggedNode null, hoveredNode null and the dragging flag false.
C7_IdleAfterUpOrLeave ==
    [][(MouseUp \/ MouseLeave) =>
          (draggedNode' = Null /\ hoveredNode' = Null /\ ~dragging')]_vars

\* C7: pointer-leave clears draggedNode, hoveredNode and the dragging flag;
\* pointer-up clears draggedNode and the dragging flag and leaves
\* hoveredNode as it was.
C7_UpAndLeave ==
    [][/\ MouseLeave =>
             (draggedNode' = Null /\ hoveredNode' = Null /\ ~dragging')
       /\ MouseUp =>
             (draggedNode' = Null /\ ~dragging' /\ hoveredNode' = hoveredNode)]_vars

\* a node drag has been released by pointer-up: the node is still hovered
C7_Witness ==
    /\ draggedNode = Null /\ ~dragging /\ hoveredNode # Null
    /\ moves > 0 /\ ctx = SetInitialTransform(scale) /\ wheels = 0

\* the position of the node with the given id
PosOf(ns, id) == <<ns[id + 1].x, ns[id + 1].y>>

\* C8 as stated: while a node drag is active the dragged node's position is
\* the conversion of the current pointer position (the position of the
\* pointer event just handled), and a frame advance does not change it.
C8_DraggedAtPointer ==
    [][/\ \A p \in Pointers :
             (/\ draggedNode' # Null
              /\ \/ MouseDown(p[1], p[2])
                 \/ MouseMove(p[1], p[2])
                 \/ \E deltaY \in DeltaYs : Wheel(p[1], p[2], deltaY))
             => PosOf(nodes', draggedNode') = CanvasCoords(p[1], p[2], ctx', scale')
       /\ (draggedNode # Null /\ Render)
             => PosOf(nodes', draggedNode) = PosOf(nodes, draggedNode)]_vars

\* C8: while a node drag is active, a pointer-move sets the dragged node's
\* position to the conversion of that pointer position, and no other
\* step (frame advance, wheel event, ...) changes it.
C8_DragPosition ==
    [][draggedNode # Null =>
          IF moves' # moves
          THEN \A p \in Pointers :
                  MouseMove(p[1], p[2]) =>
                     PosOf(nodes', draggedNode) = CanvasCoords(p[1], p[2], ctx, scale)
          ELSE PosOf(nodes', draggedNode) = PosOf(nodes, draggedNode)]_vars

\* a frame has advanced while a dragged node sat where the pointer put it
C8_Witness ==
    /\ draggedNode # Null /\ moves > 0 /\ frames > 0
    /\ Len(nodes) = 2
    /\ \E p \in Pointers :
          PosOf(nodes, draggedNode) = CanvasCoords(p[1], p[2], ctx, scale)
    /\ \E i \in 1..Len(nodes) : nodes[i].lastX # Fin(0)

\* the pointer position lies within the node's radius of its center
WithinRadius(node, pos) ==
    LET dx == Sub(node.x, pos[1])
        dy == Sub(node.y, pos[2])
    IN /\ IsFin(dx) /\ IsFin(dy)
       /\ dx.v * dx.v + dy.v * dy.v <= (node.size * Cent) * (node.size * Cent)

\* the first node in creation order that is within its radius of pos
FirstWithinRadius(ns, pos) ==
    IF \E i \in 1..Len(ns) : WithinRadius(ns[i], pos)
    THEN ns[CHOOSE i \in 1..Len(ns) :
                /\ WithinRadius(ns[i], pos)
                /\ \A j \in 1..(i - 1) : ~WithinRadius(ns[j], pos)].id
    ELSE Null

\* C9: a pointer-move outside a drag or pan makes hoveredNode the first
\* node in creation order whose center is within that node's radius
\* (size) of the pointer's simulation-space position, or null.
C9_HoverWithinRadius ==
    [][\A p \in Pointers :
          (draggedNode = Null /\ ~dragging /\ MouseMove(p[1], p[2]))
          => hoveredNode' = FirstWithinRadius(nodes,
                                CanvasCoords(p[1], p[2], ctx, scale))]_vars

\* C10: coincident force-interacting points contribute zero force, so no
\* node accumulator or position is NaN.
C10_NoNaN ==
    \A i \in 1..Len(nodes) :
       /\ ~IsNaN(nodes[i].x) /\ ~IsNaN(nodes[i].y)
       /\ ~IsNaN(nodes[i].nextX) /\ ~IsNaN(nodes[i].nextY)
       /\ ~IsNaN(nodes[i].lastX) /\ ~IsNaN(nodes[i].lastY)

\* what #calcEdgeForce adds to the accumulators of the node at index i
EdgeContribution(ns, edge, i) ==
    LET after == CalcEdgeForce(ns, edge)
    IN <<Sub(after[i].nextX, ns[i].nextX), Sub(after[i].nextY, ns[i].nextY)>>

\* the contribution c does not move a node at 'from' away from 'to': it
\* has a positive component along the line towards 'to'
Toward(c, from, to) ==
    /\ IsFin(c[1]) /\ IsFin(c[2])
    /\ c[1].v * Sign(Sub(to.x, from.x).v) >= 0
    /\ c[2].v * Sign(Sub(to.y, from.y).v) >= 0
    /\ c[1].v # 0 \/ c[2].v # 0

\* C11: the edge force is one-sided: a stored edge no longer than
\* linkDistance contributes zero to the accumulators of both endpoints,
\* and a longer edge moves each endpoint towards the other.
C11_OneSidedSpring ==
    \A k \in 1..Len(edges) :
       LET i == edges[k][1] + 1
           j == edges[k][2] + 1
       IN (~NoNode(edges[k][1]) /\ ~NoNode(edges[k][2])
           /\ IsFin(Dist(nodes[i], nodes[j])))
          => IF Dist(nodes[i], nodes[j]).v <= LinkDistance * Cent
             THEN /\ EdgeContribution(nodes, edges[k], i) = <<Fin(0), Fin(0)>>
                  /\ EdgeContribution(nodes, edges[k], j) = <<Fin(0), Fin(0)>>
             ELSE /\ Toward(EdgeContribution(nodes, edges[k], i), nodes[i], nodes[j])
                  /\ Toward(EdgeContribution(nodes, edges[k], j), nodes[j], nodes[i])

\* C12: node ids are assigned 0, 1, 2, ... in creation order (the k-th
\* node has id k - 1 and nextID is the number of nodes created), so an
\* edge endpoint that is the id of a node indexes exactly that node.
C12_NodeIds ==
    /\ nextID = Len(nodes)
    /\ \A k \in 1..Len(nodes) : nodes[k].id = k - 1
    /\ \A e \in 1..Len(edges) : \A m \in 1..2 :
          (\E n \in 1..Len(nodes) : nodes[n].id = edges[e][m])
          => /\ ~NoNode(edges[e][m])
             /\ nodes[edges[e][m] + 1].id = edges[e][m]

\* two nodes have been created and an edge between them is stored
C12_Witness ==
    /\ Len(nodes) = 2 /\ nextID = 2
    /\ \E e \in 1..Len(edges) : edges[e] = <<0, 1>> \/ edges[e] = <<1, 0>>

\* C13: while a node is dragged, every frame advance leaves the smoothing
\* term lastX / lastY of that node equal to zero.
C13_DraggedLastZero ==
    [][(draggedNode # Null /\ frames' # frames)
       => /\ nodes'[draggedNode + 1].lastX = Fin(0)
          /\ nodes'[draggedNode + 1].lastY = Fin(0)]_vars

\* C14: in every state between frames the pending-force accumulator
\* (nextX, nextY) of every node is (0, 0), the dragged node included:
\* each frame advance ends by resetting it and nothing else writes it.
C14_AccumulatorsZero ==
    \A i \in 1..Len(nodes) :
       nodes[i].nextX = Fin(0) /\ nodes[i].nextY = Fin(0)

\* a frame has accumulated a force on a node that is being dragged
C14_Witness ==
    /\ frames > 0 /\ draggedNode # Null
    /\ nodes[draggedNode + 1].lastX # Fin(0)
    /\ nodes[draggedNode + 1].nextX = Fin(0)

\* C15: a pointer-move while panning translates the view by the
\* device-space delta since the previous pointer event of the gesture
\* (to within one unit of the resolution of the transform) and leaves the
\* scale, the nodes, hoveredNode and draggedNode unchanged.
C15_PanByDelta ==
    [][\A p \in Pointers :
          (draggedNode = Null /\ dragging /\ MouseMove(p[1], p[2]))
          => /\ ctx'.a = ctx.a
             /\ Abs(ctx'.e - (ctx.e + (p[1] - startDrag[1]) * Cent)) <= 1
             /\ Abs(ctx'.f - (ctx.f + (p[2] - startDrag[2]) * Cent)) <= 1
             /\ scale' = scale
             /\ nodes' = nodes
             /\ hoveredNode' = hoveredNode
             /\ draggedNode' = draggedNode]_vars

\* C16: whenever draggedNode is non-null, hoveredNode is the same node and
\* the dragging flag is true; and while a drag or pan gesture stays in
\* progress hoveredNode is not recomputed.
C16_DragImpliesHover ==
    /\ [](draggedNode # Null => (hoveredNode = draggedNode /\ dragging))
    /\ [][(dragging /\ dragging') => hoveredNode' = hoveredNode]_vars

\* the second node is being dragged, after a pointer-move and a frame
C16_Witness ==
    /\ draggedNode = 1 /\ hoveredNode = 1 /\ dragging
    /\ moves > 0 /\ frames > 0

====
